---------------------------- MODULE Spec2Model ----------------------------
(***************************************************************************)
(* Model of tasks/regular/modular_arithmetic.py: the evaluation pipeline   *)
(* _replace_blanks -> _replace_subtractions -> _perform_multiplications -> *)
(* sum % modulus, and the ModularArithmetic task (constructor and          *)
(* sample_batch).                                                          *)
(*                                                                         *)
(* Arrays are TLA+ sequences: Python index i is TLA+ index i + 1.          *)
(* jax arrays of integers are int32 (dtype=int with 64-bit mode off), so   *)
(* products and sums wrap modulo 2^32.  TLC's own integers are 32 bits and *)
(* raise an error on overflow, so the wrapping operations work on bytes.   *)
(***************************************************************************)
EXTENDS Integers, Sequences, FiniteSets, TLC

VARIABLES
    constructed,     \* a ModularArithmetic object exists
    self_modulus,    \* self._modulus
    operators,       \* the constructor's `operators` argument
    self_operators,  \* self._operators
    batch_size,      \* sample_batch's batch_size argument
    length,          \* sample_batch's length argument
    row,             \* the row of the batch that in_expression and label show
    call,            \* the last operation called
    outcome,         \* how it ended: "ok" or the exception raised
    in_modulus,      \* the modulus argument of the last pipeline call
    in_expression,   \* the expression argument of the last pipeline call
    label,           \* what _evaluate_expression returned for it
    unpadded,        \* the blank-free expression in_expression was padded from
    pads,            \* number of blank pairs inserted into `unpadded`
    pads_additive    \* every pair was inserted next to an additive position

vars == <<constructed, self_modulus, operators, self_operators, batch_size,
          length, row, call, outcome, in_modulus, in_expression, label,
          unpadded,
          pads, pads_additive>>

---------------------------------------------------------------------------
(* Bounds of the model. *)

\* Longest expression that is enumerated exhaustively.
MaxLen == 5

\* Largest batch_size passed to sample_batch.
MaxBatch == 2

\* Most blank pairs inserted into one expression.
MaxPads == 2

---------------------------------------------------------------------------
(* Symbol encoding. *)

Characters == {"+", "-", "*", "_"}

OP_BY_CHARACTER ==
    [c \in Characters |->
        CASE c = "+" -> 0 [] c = "-" -> 1 [] c = "*" -> 2 [] c = "_" -> 3]

---------------------------------------------------------------------------
(* int32 arithmetic.  A value is an integer in -2^31 .. 2^31 - 1.          *)

Byte(a, i) ==
    CASE i = 0 -> a % 256
      [] i = 1 -> (a \div 256) % 256
      [] i = 2 -> (a \div 65536) % 256
      [] i = 3 -> (a \div 16777216) % 256

\* The int32 whose two's complement bytes are b0 (lowest) .. b3.
FromBytes(b0, b1, b2, b3) ==
    (IF b3 >= 128 THEN b3 - 256 ELSE b3) * 16777216 + b2 * 65536 + b1 * 256 + b0

\* |a| * |b| and |a| + |b| stay below 2^31: nothing wraps.
Small(a) == -46340 <= a /\ a <= 46340

\* a * b in int32: the low 32 bits of the product (schoolbook, by columns).
Mul32(a, b) ==
    IF Small(a) /\ Small(b) THEN a * b
    ELSE
      LET c0 == Byte(a, 0) * Byte(b, 0)
          c1 == Byte(a, 0) * Byte(b, 1) + Byte(a, 1) * Byte(b, 0) + (c0 \div 256)
          c2 == Byte(a, 0) * Byte(b, 2) + Byte(a, 1) * Byte(b, 1)
                + Byte(a, 2) * Byte(b, 0) + (c1 \div 256)
          c3 == Byte(a, 0) * Byte(b, 3) + Byte(a, 1) * Byte(b, 2)
                + Byte(a, 2) * Byte(b, 1) + Byte(a, 3) * Byte(b, 0) + (c2 \div 256)
      IN  FromBytes(c0 % 256, c1 % 256, c2 % 256, c3 % 256)

\* a + b in int32.
Add32(a, b) ==
    IF Small(a) /\ Small(b) THEN a + b
    ELSE
      LET c0 == Byte(a, 0) + Byte(b, 0)
          c1 == Byte(a, 1) + Byte(b, 1) + (c0 \div 256)
          c2 == Byte(a, 2) + Byte(b, 2) + (c1 \div 256)
          c3 == Byte(a, 3) + Byte(b, 3) + (c2 \div 256)
      IN  FromBytes(c0 % 256, c1 % 256, c2 % 256, c3 % 256)

\* The remainder of a truncating division: it has the sign of a.
TruncatingRemainder(a, m) ==
    IF m > 0 THEN {IF a >= 0 THEN a % m ELSE -((-a) % m)}
    ELSE IF m < 0 THEN {IF a >= 0 THEN a % (-m) ELSE -((-a) % (-m))}
    ELSE {a, 0, -1}

\* The outcomes of `a % m` on int32 arrays: the remainder has the sign of m;
\* m = 0 is a division by zero, whose value depends on the backend.
Remainder(a, m) ==
    IF m > 0 THEN {a % m}
    ELSE IF m < 0 THEN {-((-a) % (-m))}
    ELSE {a, 0, -1}

---------------------------------------------------------------------------
(* The evaluation pipeline. *)

\* expression[i] for a Python index i.
At(expression, i) == expression[i + 1]

\* The array a itself, as a tuple: its elements are computed once.
Array(a) == a \o <<>>

\* Negates the residue at the position of every `-` instead of after it.
ReplaceSubtractionsInPlace(expression, modulus) ==
    IF Len(expression) < 2 THEN expression
    ELSE
      LET mask == [i \in 1..Len(expression) |->
                      expression[i] = modulus + OP_BY_CHARACTER["-"]]
          subtract_replaced ==
              [i \in 1..Len(expression) |->
                  IF mask[i] THEN modulus + OP_BY_CHARACTER["+"]
                  ELSE expression[i]]
      IN  Array([i \in 1..Len(expression) |->
              IF i >= 3
              THEN Mul32(subtract_replaced[i], 1 - 2 * (IF mask[i] THEN 1 ELSE 0))
              ELSE subtract_replaced[i]])

_replace_subtractions(expression, modulus) ==
    IF Len(expression) < 2 THEN expression
    ELSE
      LET mask == [i \in 1..Len(expression) |->
                      expression[i] = modulus + OP_BY_CHARACTER["-"]]
          subtract_replaced ==
              [i \in 1..Len(expression) |->
                  IF mask[i] THEN modulus + OP_BY_CHARACTER["+"]
                  ELSE expression[i]]
      \* .at[2:].multiply(1 - 2 * mask[1:-1]): Python index j >= 2 is
      \* multiplied by 1 - 2 * mask[j - 1].
      IN  Array([i \in 1..Len(expression) |->
              IF i >= 3
              THEN Mul32(subtract_replaced[i],
                         1 - 2 * (IF mask[i - 1] THEN 1 ELSE 0))
              ELSE subtract_replaced[i]])

\* expression[::2]
Residues(expression) ==
    Array([k \in 1..((Len(expression) + 1) \div 2) |-> expression[2 * k - 1]])

RECURSIVE CumSum(_, _)
\* jnp.cumsum(mask)[i - 1]: how many of mask[1..i] are true.
CumSum(mask, i) ==
    IF i = 0 THEN 0 ELSE CumSum(mask, i - 1) + (IF mask[i] THEN 1 ELSE 0)

\* term_ids of _perform_multiplications: the count of `+` up to and
\* including each even Python index.
term_ids(expression, modulus) ==
    LET plus == [i \in 1..Len(expression) |->
                    expression[i] = modulus + OP_BY_CHARACTER["+"]]
    IN  Array([k \in 1..((Len(expression) + 1) \div 2) |->
                  CumSum(plus, 2 * k - 1)])

maximum_term_number(expression) == Len(expression) \div 2 + 1

RECURSIVE SegmentProd(_, _, _, _)
\* jax.ops.segment_prod's slot s over data[1..k]: the int32 product of the
\* data whose segment id is s, 1 for a slot that receives none.
SegmentProd(data, ids, s, k) ==
    IF k = 0 THEN 1
    ELSE IF ids[k] = s THEN Mul32(SegmentProd(data, ids, s, k - 1), data[k])
    ELSE SegmentProd(data, ids, s, k - 1)

\* Keeps only the slots strictly below the last term id.
ValidBelowLast(expression, modulus) ==
    LET ids == term_ids(expression, modulus)
    IN  [s \in 0..(maximum_term_number(expression) - 1) |-> s < ids[Len(ids)]]

\* jnp.arange(maximum_term_number) <= term_ids[-1], indexed by slot 0, 1, ...
valid_segment_mask(expression, modulus) ==
    LET ids == term_ids(expression, modulus)
    IN  [s \in 0..(maximum_term_number(expression) - 1) |-> s <= ids[Len(ids)]]

\* products of _perform_multiplications, indexed by slot 0, 1, ...
products(expression, modulus) ==
    LET ids == term_ids(expression, modulus)
        data == Residues(expression)
    IN  [s \in 0..(maximum_term_number(expression) - 1) |->
            SegmentProd(data, ids, s, Len(ids))]

\* The returned array as a sequence: slot s is element s + 1.
_perform_multiplications(expression, modulus) ==
    LET prods == products(expression, modulus)
        valid == valid_segment_mask(expression, modulus)
    IN  Array([j \in 1..maximum_term_number(expression) |->
                  Mul32(prods[j - 1], IF valid[j - 1] THEN 1 ELSE 0)])

\* Replaces every blank by `*` at operator positions.
ReplaceBlanksByTimes(expression, modulus) ==
    Array([i \in 1..Len(expression) |->
        IF expression[i] = OP_BY_CHARACTER["_"] + modulus
        THEN (IF (i - 1) % 2 = 1 THEN OP_BY_CHARACTER["*"] + modulus ELSE 0)
        ELSE expression[i]])

\* Replaces every blank by 0, whatever its position.
ReplaceBlanksByZero(expression, modulus) ==
    Array([i \in 1..Len(expression) |->
        IF expression[i] = OP_BY_CHARACTER["_"] + modulus THEN 0
        ELSE expression[i]])

_replace_blanks(expression, modulus) ==
    LET mask == [i \in 1..Len(expression) |->
                    expression[i] = OP_BY_CHARACTER["_"] + modulus]
        \* mask.at[::2].set(False), mask.at[1::2].set(False)
        operator_mask == [i \in 1..Len(expression) |->
                             IF (i - 1) % 2 = 0 THEN FALSE ELSE mask[i]]
        residual_mask == [i \in 1..Len(expression) |->
                             IF (i - 1) % 2 = 1 THEN FALSE ELSE mask[i]]
        blanks_replaced ==
            [i \in 1..Len(expression) |->
                IF operator_mask[i] THEN OP_BY_CHARACTER["+"] + modulus
                ELSE expression[i]]
    IN  Array([i \in 1..Len(expression) |->
                  IF residual_mask[i] THEN 0 ELSE blanks_replaced[i]])

RECURSIVE Sum32(_, _)
\* jnp.sum over terms[1..k], in int32.
Sum32(terms, k) ==
    IF k = 0 THEN 0 ELSE Add32(Sum32(terms, k - 1), terms[k])

\* additive_terms of _evaluate_expression.
additive_terms(expression, modulus) ==
    _perform_multiplications(
        _replace_subtractions(_replace_blanks(expression, modulus), modulus),
        modulus)

\* The values _evaluate_expression can return (one, unless modulus = 0).
_evaluate_expression(expression, modulus) ==
    LET terms == additive_terms(expression, modulus)
    IN  Remainder(Sum32(terms, Len(terms)), modulus)

---------------------------------------------------------------------------
(* Inputs. *)

\* Moduli whose expressions are enumerated exhaustively.
Moduli == {1, 2, 3}

\* Moduli the constructor is called with.
ConstructorModuli == {-1, 0} \cup Moduli

\* The `operators` argument: None, or a sequence of operator characters
\* (modelled by the set of its characters).
OperatorArguments ==
    {[none |-> TRUE, chars |-> {}]}
    \cup {[none |-> FALSE, chars |-> S] :
             S \in {{"+"}, {"+", "*"}, {"+", "-", "*"}}}

ResidueSymbols(m) == 0..(m - 1)

OperatorSymbols(m) ==
    {m + OP_BY_CHARACTER[c] : c \in {"+", "-", "*"}}

Blank(m) == m + OP_BY_CHARACTER["_"]

RECURSIVE Expressions(_, _, _)
\* The alternating sequences of length L (odd) with symbols of R at even
\* Python indices and symbols of O at odd ones.
Expressions(R, O, L) ==
    IF L = 1 THEN {<<r>> : r \in R}
    ELSE {Append(Append(e, o), r) : e \in Expressions(R, O, L - 2), o \in O, r \in R}

OddLengths == {L \in 1..MaxLen : L % 2 = 1}

\* Well-formed expressions with blanks allowed at any position.
BlankedExpressions(m) ==
    UNION {Expressions(ResidueSymbols(m) \cup {Blank(m)},
                       OperatorSymbols(m) \cup {Blank(m)}, L) : L \in OddLengths}

\* The examples of the class docstring, modulo 5: 1 + 2 * 3, 1 - 1 - 1 and
\* 0 * 1 + 4 * 3 - 2, and the single residue 3.
DocumentedExamples ==
    {<<5, <<1, 5, 2, 7, 3>>>>,
     <<5, <<1, 6, 1, 6, 1>>>>,
     <<5, <<0, 7, 1, 5, 4, 7, 3, 6, 2>>>>,
     <<5, <<3>>>>}

\* r * r * ... * r with n factors, modulo m.
PowerExpression(m, r, n) ==
    Array([i \in 1..(2 * n - 1) |->
        IF i % 2 = 1 THEN r ELSE m + OP_BY_CHARACTER["*"]])

\* Products whose exact value needs more than 31 bits: 4^16 = 2^32 modulo 5
\* (a length sample_batch produces), 2048^3 = 2^33 modulo 2049.
LongProducts ==
    {<<5, PowerExpression(5, 4, 16)>>, <<2049, PowerExpression(2049, 2048, 3)>>}

\* Calls of the pipeline with a modulus that is not positive.
NonPositiveModulusInputs ==
    UNION {{<<m, e>> : e \in {<<0>>, <<1>>, <<1, m + 1, 1>>, <<1, m + 2, 2>>}} :
           m \in {-1, 0}}

EvaluateInputs ==
    UNION {{<<m, e>> : e \in BlankedExpressions(m)} : m \in Moduli}
    \cup DocumentedExamples \cup LongProducts \cup NonPositiveModulusInputs

\* Odd length, residues at even Python indices, + - * at odd ones.
WellFormed(e, m) ==
    /\ m >= 1
    /\ Len(e) % 2 = 1
    /\ \A i \in 1..Len(e) :
          IF (i - 1) % 2 = 0 THEN e[i] \in ResidueSymbols(m)
          ELSE e[i] \in OperatorSymbols(m)

\* As WellFormed, with the blank allowed at every position.
WellFormedWithBlanks(e, m) ==
    /\ m >= 1
    /\ Len(e) % 2 = 1
    /\ \A i \in 1..Len(e) :
          \/ e[i] = Blank(m)
          \/ IF (i - 1) % 2 = 0 THEN e[i] \in ResidueSymbols(m)
             ELSE e[i] \in OperatorSymbols(m)

\* e with two blanks inserted before Python index k (k = Len(e): appended).
InsertBlanks(e, k, m) ==
    Array([i \in 1..(Len(e) + 2) |->
        IF i <= k THEN e[i]
        ELSE IF i <= k + 2 THEN Blank(m)
        ELSE e[i - 2]])

\* The pair inserted before Python index k is at the start, at the end,
\* right before a `+` or `-` (or blank) operator or right after a `+` (or
\* blank) operator.
AdditivePosition(e, k, m) ==
    IF k % 2 = 0
    THEN k = 0 \/ At(e, k - 1) \in {m + OP_BY_CHARACTER["+"], Blank(m)}
    ELSE k = Len(e)
         \/ At(e, k) \in {m + OP_BY_CHARACTER["+"], m + OP_BY_CHARACTER["-"],
                          Blank(m)}

---------------------------------------------------------------------------
(* The task. *)

\* Keeps an even length as it is.
KeepLength(n) == n

\* sample_batch's length after "if length % 2 != 1: length -= 1".
SampledLength(n) == IF n % 2 # 1 THEN n - 1 ELSE n

\* ops of sample_batch: self._modulus + np.array(list(self._operators)).
SampledOps(m, ops) == {m + ops[j] : j \in 1..Len(ops)}

\* One row of `expressions`: remainders at even Python indices, operations
\* at odd ones.
SampledRows(m, ops, L) ==
    {Array([i \in 1..L |->
        IF (i - 1) % 2 = 0 THEN remainders[(i + 1) \div 2]
        ELSE operations[i \div 2]]) :
     remainders \in [1..(L \div 2 + 1) -> 0..(m - 1)],
     operations \in [1..(L \div 2) -> SampledOps(m, ops)]}

\* Nothing is constructed and nothing has been called: the fields and the
\* arguments hold placeholders that no formula reads before a call sets them.
Init ==
    /\ constructed = FALSE
    /\ self_modulus = 0
    /\ operators = [none |-> TRUE, chars |-> {}]
    /\ self_operators = <<>>
    /\ batch_size = 0
    /\ length = 0
    /\ row = 0
    /\ call = "none"
    /\ outcome = "none"
    /\ in_modulus = 0
    /\ in_expression = <<>>
    /\ label = 0
    /\ unpadded = <<>>
    /\ pads = 0
    /\ pads_additive = TRUE

\* ModularArithmetic.__init__: stores the modulus unchecked; whatever
\* `operators` is, self._operators is the hard-coded (0, 2, 1).
Construct(m, ops) ==
    /\ ~constructed
    /\ call = "none"
    /\ constructed' = TRUE
    /\ self_modulus' = m
    /\ operators' = ops
    /\ self_operators' = <<0, 2, 1>>
    /\ call' = "__init__"
    /\ outcome' = "ok"
    /\ UNCHANGED <<batch_size, length, row, in_modulus, in_expression, label,
                   unpadded, pads, pads_additive>>

\* sample_batch(N, n), seen through row i of the batch.  The first batch of
\* an object is modelled: sample_batch neither reads nor writes what a
\* previous call left.  np.random.randint(0, m, ...) raises ValueError for
\* m <= 0.
SampleBatch(N, n, i) ==
    /\ constructed
    /\ call = "__init__"
    /\ call' = "sample_batch"
    /\ batch_size' = N
    /\ length' = n
    /\ row' = i
    /\ IF self_modulus <= 0
       THEN /\ outcome' = "ValueError"
            /\ UNCHANGED <<in_modulus, in_expression, label>>
       ELSE /\ outcome' = "ok"
            /\ in_modulus' = self_modulus
            /\ \E e \in SampledRows(self_modulus, self_operators, SampledLength(n)) :
                  /\ in_expression' = e
                  /\ \E r \in _evaluate_expression(e, self_modulus) : label' = r
    /\ UNCHANGED <<constructed, self_modulus, operators, self_operators,
                   unpadded, pads, pads_additive>>

\* A call _evaluate_expression(e, m) of the module-level function, which
\* reads no object: it is exercised in runs that construct none.
Evaluate(m, e) ==
    /\ ~constructed
    /\ call = "none"
    /\ call' = "_evaluate_expression"
    /\ outcome' = "ok"
    /\ in_modulus' = m
    /\ in_expression' = e
    /\ \E r \in _evaluate_expression(e, m) : label' = r
    /\ unpadded' = IF WellFormed(e, m) /\ Len(e) <= MaxLen THEN e ELSE <<>>
    /\ UNCHANGED <<constructed, self_modulus, operators, self_operators,
                   batch_size, length, row, pads, pads_additive>>

\* The caller pads the expression with a pair of blanks before Python index
\* k and evaluates it again.
EvaluatePadded(k) ==
    /\ call = "_evaluate_expression"
    /\ unpadded # <<>>
    /\ pads < MaxPads
    /\ k \in 0..Len(in_expression)
    /\ in_expression' = InsertBlanks(in_expression, k, in_modulus)
    /\ \E r \in _evaluate_expression(in_expression', in_modulus) : label' = r
    /\ pads' = pads + 1
    /\ pads_additive' = (pads_additive /\ AdditivePosition(in_expression, k, in_modulus))
    /\ UNCHANGED <<constructed, self_modulus, operators, self_operators,
                   batch_size, length, row, call, outcome, in_modulus, unpadded>>

Next ==
    \/ \E m \in ConstructorModuli, ops \in OperatorArguments : Construct(m, ops)
    \/ \E N \in 1..MaxBatch, n \in 1..MaxLen : \E i \in 0..(N - 1) : SampleBatch(N, n, i)
    \/ \E x \in EvaluateInputs : Evaluate(x[1], x[2])
    \/ \E k \in 0..(MaxLen + 2 * MaxPads) : EvaluatePadded(k)

Spec == Init /\ [][Next]_vars

---------------------------------------------------------------------------
(* The reference evaluator: multiplication before addition and             *)
(* subtraction, left to right, every step reduced modulo m.                *)

RECURSIVE ReferenceWalk(_, _, _, _, _, _)
\* i: the index of the next operator; acc: the sum of the finished terms;
\* sign, cur: the sign and the product so far of the current term.
ReferenceWalk(e, m, i, acc, sign, cur) ==
    IF i > Len(e) THEN (acc + sign * cur) % m
    ELSE IF e[i] = m + OP_BY_CHARACTER["*"]
    THEN ReferenceWalk(e, m, i + 2, acc, sign, (cur * e[i + 1]) % m)
    ELSE ReferenceWalk(e, m, i + 2, (acc + sign * cur) % m,
                       IF e[i] = m + OP_BY_CHARACTER["+"] THEN 1 ELSE -1,
                       e[i + 1] % m)

Reference(e, m) == ReferenceWalk(e, m, 2, 0, 1, e[1] % m)

RECURSIVE TermExceeds(_, _, _, _)
\* cur: the exact product so far of the current term.
TermExceeds(e, m, i, cur) ==
    IF i > Len(e) THEN FALSE
    ELSE IF e[i] = m + OP_BY_CHARACTER["*"]
    THEN IF e[i + 1] # 0 /\ cur > 2147483647 \div e[i + 1] THEN TRUE
         ELSE TermExceeds(e, m, i + 2, cur * e[i + 1])
    ELSE TermExceeds(e, m, i + 2, e[i + 1])

\* The exact product of the residues of some term exceeds 2^31 - 1.
SomeTermExceedsInt32(e, m) == TermExceeds(e, m, 2, e[1])

\* _evaluate_expression has returned for in_expression.
Evaluated == call \in {"_evaluate_expression", "sample_batch"} /\ outcome = "ok"

\* The input of _perform_multiplications inside _evaluate_expression.
Eliminated ==
    _replace_subtractions(_replace_blanks(in_expression, in_modulus), in_modulus)

---------------------------------------------------------------------------
(* Claims. *)

\* C1: for every modulus m >= 1 and every well-formed expression,
\* _evaluate_expression returns the value of the reference evaluator; a
\* single residue evaluates to itself, and modulo 5: 1+2*3 = 2, 1-1-1 = 4,
\* 0*1+4*3-2 = 0.
EvaluateMatchesReference ==
    (Evaluated /\ WellFormed(in_expression, in_modulus)) =>
        /\ label = Reference(in_expression, in_modulus)
        /\ Len(in_expression) = 1 => label = in_expression[1]
        /\ (in_modulus = 5 /\ in_expression = <<1, 5, 2, 7, 3>>) => label = 2
        /\ (in_modulus = 5 /\ in_expression = <<1, 6, 1, 6, 1>>) => label = 4
        /\ (in_modulus = 5 /\ in_expression = <<0, 7, 1, 5, 4, 7, 3, 6, 2>>)
              => label = 0

\* The same on the expressions none of whose terms has an exact product
\* above 2^31 - 1.
EvaluateMatchesReferenceWithin31Bits ==
    (/\ Evaluated
     /\ WellFormed(in_expression, in_modulus)
     /\ ~SomeTermExceedsInt32(in_expression, in_modulus)) =>
        label = Reference(in_expression, in_modulus)

\* C2: evaluating an expression padded with pairs of adjacent blanks,
\* inserted at any positions, gives the result of the unpadded expression.
PaddingInvariance ==
    pads >= 1 => label \in _evaluate_expression(unpadded, in_modulus)

\* C2, amended: evaluating an expression padded with pairs of adjacent
\* blanks gives the result of the unpadded expression when every pair is
\* inserted at the start, at the end, right before a `+` or `-` operator or
\* right after a `+` operator (a blank operator counting as `+`).
PaddingInvarianceAtAdditivePositions ==
    (pads >= 1 /\ pads_additive) =>
        label \in _evaluate_expression(unpadded, in_modulus)

\* Two pairs were inserted inside an expression, at additive positions, and
\* the result is not zero.
PaddedInsideWitness ==
    /\ pads = 2
    /\ pads_additive
    /\ Len(unpadded) >= 3
    /\ in_expression[1] # Blank(in_modulus)
    /\ in_expression[Len(in_expression)] # Blank(in_modulus)
    /\ label # 0

\* C3: for m >= 1 and every expression well-formed up to blanks, the value
\* returned by _evaluate_expression is a residue in [0, m), also when the
\* sum of the additive terms is negative.
ResultIsResidue ==
    (Evaluated /\ WellFormedWithBlanks(in_expression, in_modulus)) =>
        label \in 0..(in_modulus - 1)

\* The sum of the additive terms is negative and the result is not zero.
NegativeSumWitness ==
    /\ Evaluated
    /\ WellFormedWithBlanks(in_expression, in_modulus)
    /\ LET terms == additive_terms(in_expression, in_modulus)
       IN  Sum32(terms, Len(terms)) < 0
    /\ label > 0

\* C4: on a well-formed blank-free expression _replace_subtractions keeps the
\* length, turns every `-` into `+`, replaces the residue r after a former
\* `-` by its inverse reduced modulo m (m - r, or 0 for r = 0), and leaves
\* every other symbol unchanged; a single residue is returned unchanged.
SubtractionsReplacedByReducedInverse ==
    (Evaluated /\ WellFormed(in_expression, in_modulus)) =>
        LET e == in_expression
            out == _replace_subtractions(e, in_modulus)
            minus == in_modulus + OP_BY_CHARACTER["-"]
        IN  /\ Len(out) = Len(e)
            /\ Len(e) = 1 => out = e
            /\ \A i \in 1..Len(e) :
                  /\ out[i] # minus
                  /\ out[i] = IF e[i] = minus
                              THEN in_modulus + OP_BY_CHARACTER["+"]
                              ELSE IF i >= 3 /\ e[i - 1] = minus
                              THEN (in_modulus - e[i]) % in_modulus
                              ELSE e[i]

\* C4, amended: as C4, but the residue r after a former `-` is replaced by
\* the integer -r, which is not reduced modulo m: it is a residue only for
\* r = 0, and otherwise lies in (-m, 0).
SubtractionsReplacedByNegation ==
    (Evaluated /\ WellFormed(in_expression, in_modulus)) =>
        LET e == in_expression
            out == _replace_subtractions(e, in_modulus)
            minus == in_modulus + OP_BY_CHARACTER["-"]
        IN  /\ Len(out) = Len(e)
            /\ Len(e) = 1 => out = e
            /\ \A i \in 1..Len(e) :
                  /\ out[i] # minus
                  /\ out[i] = IF e[i] = minus
                              THEN in_modulus + OP_BY_CHARACTER["+"]
                              ELSE IF i >= 3 /\ e[i - 1] = minus
                              THEN -e[i]
                              ELSE e[i]
                  /\ (i >= 3 /\ e[i - 1] = minus /\ e[i] # 0) =>
                        (-in_modulus < out[i] /\ out[i] < 0)

\* An expression in which a `-` is followed by a nonzero residue and a `+`
\* and a `*` occur as well.
SubtractionWitness ==
    /\ Evaluated
    /\ WellFormed(in_expression, in_modulus)
    /\ Len(in_expression) >= 5
    /\ \E i \in 3..Len(in_expression) :
          /\ in_expression[i - 1] = in_modulus + OP_BY_CHARACTER["-"]
          /\ in_expression[i] # 0
          /\ _replace_subtractions(in_expression, in_modulus)[i] = -in_expression[i]
    /\ \E i \in 1..Len(in_expression) :
          in_expression[i] = in_modulus + OP_BY_CHARACTER["*"]

\* C5: _replace_blanks keeps the length and leaves no blank: a blank at an
\* odd index becomes `+`, a blank at an even index becomes 0, and every
\* other symbol is unchanged; an expression without blanks is returned
\* unchanged and replacing twice is replacing once.
BlanksReplaced ==
    (Evaluated /\ in_modulus >= 1 /\ Len(in_expression) % 2 = 1) =>
        LET e == in_expression
            out == _replace_blanks(e, in_modulus)
        IN  /\ Len(out) = Len(e)
            /\ \A i \in 1..Len(e) :
                  /\ out[i] # Blank(in_modulus)
                  /\ out[i] = IF e[i] # Blank(in_modulus) THEN e[i]
                              ELSE IF (i - 1) % 2 = 1
                              THEN in_modulus + OP_BY_CHARACTER["+"]
                              ELSE 0
            /\ (\A i \in 1..Len(e) : e[i] # Blank(in_modulus)) => out = e
            /\ _replace_blanks(out, in_modulus) = out

\* An expression with a blank at an operator position, a blank at a residue
\* position and a residue that is neither blank nor zero.
BlanksWitness ==
    /\ Evaluated
    /\ in_modulus >= 1
    /\ \E i, j, k \in 1..Len(in_expression) :
          /\ (i - 1) % 2 = 1 /\ in_expression[i] = Blank(in_modulus)
          /\ (j - 1) % 2 = 0 /\ in_expression[j] = Blank(in_modulus)
          /\ (k - 1) % 2 = 0 /\ in_expression[k] \notin {Blank(in_modulus), 0}
          /\ _replace_blanks(in_expression, in_modulus)[k] = in_expression[k]
          /\ _replace_blanks(in_expression, in_modulus)[i]
                = in_modulus + OP_BY_CHARACTER["+"]
          /\ _replace_blanks(in_expression, in_modulus)[j] = 0

\* C6: every operator of an expression produced by sample_batch is one the
\* `operators` argument of the constructor names (any of + - * for None).
OperatorsArgumentHonoured ==
    (call = "sample_batch" /\ outcome = "ok") =>
        \A i \in 1..Len(in_expression) :
            (i - 1) % 2 = 1 =>
                in_expression[i] \in
                    {in_modulus + OP_BY_CHARACTER[c] :
                        c \in (IF operators.none THEN {"+", "-", "*"}
                               ELSE operators.chars)}

\* C7: for m >= 1, N >= 1 and n >= 1 every expression sample_batch produces
\* has length n (n odd) or n - 1 (n even), residues in [0, m) at even
\* indices, operator codes m, m+1, m+2 at odd indices and no blank, so that
\* its one-hot index is < m at residue positions and >= m (and inside the
\* m + 4 classes) at operator positions.
SampledExpressionsWellFormed ==
    (call = "sample_batch" /\ self_modulus >= 1) =>
        /\ outcome = "ok"
        /\ row \in 0..(batch_size - 1)
        /\ Len(in_expression) = IF length % 2 = 1 THEN length ELSE length - 1
        /\ Len(in_expression) % 2 = 1
        /\ WellFormed(in_expression, self_modulus)
        /\ \A i \in 1..Len(in_expression) :
              /\ in_expression[i] # Blank(self_modulus)
              /\ in_expression[i] \in 0..(self_modulus + Cardinality(Characters) - 1)
              /\ ((i - 1) % 2 = 0) <=> (in_expression[i] < self_modulus)

\* A batch requested with an even length above 3, seen at its last row.
SampledEvenLengthWitness ==
    /\ call = "sample_batch"
    /\ outcome = "ok"
    /\ length % 2 = 0
    /\ Len(in_expression) = length - 1
    /\ Len(in_expression) >= 3
    /\ batch_size >= 2
    /\ row = batch_size - 1

\* C8: with 32-bit wrapping arithmetic _evaluate_expression returns the
\* result of the exact reference evaluator for every well-formed expression
\* and every modulus with m + 3 < 2^31, also when the exact product of the
\* residues of a term exceeds 2^31 - 1.
FixedWidthDoesNotAffectResult ==
    (/\ Evaluated
     /\ WellFormed(in_expression, in_modulus)
     /\ in_modulus <= 2147483647 - 4) =>
        /\ label = Reference(in_expression, in_modulus)
        /\ SomeTermExceedsInt32(in_expression, in_modulus) =>
              label = Reference(in_expression, in_modulus)

\* C9: a modulus m <= 0 is rejected with InvalidModulusError, by the
\* constructor and by the evaluation pipeline, before anything is sampled
\* or evaluated.
NonPositiveModulusRejected ==
    /\ (constructed /\ self_modulus <= 0) => outcome = "InvalidModulusError"
    /\ (call = "_evaluate_expression" /\ in_modulus <= 0) =>
          outcome = "InvalidModulusError"

\* C10: in _perform_multiplications the term ids start at 0, never decrease,
\* grow by at most 1 from one residue to the next and never exceed L // 2;
\* every slot up to the last term id receives a residue and no later slot
\* does, so the validity mask zeroes exactly the empty slots.
TermIdsSortedAndMaskExact ==
    (Evaluated /\ WellFormedWithBlanks(in_expression, in_modulus)) =>
        LET x == Eliminated
            ids == term_ids(x, in_modulus)
            slots == 0..(maximum_term_number(x) - 1)
            filled(s) == \E k \in 1..Len(ids) : ids[k] = s
        IN  /\ ids[1] = 0
            /\ \A k \in 1..(Len(ids) - 1) : ids[k + 1] - ids[k] \in {0, 1}
            /\ ids[Len(ids)] <= Len(x) \div 2
            /\ \A k \in 1..Len(ids) : ids[k] \in slots
            /\ \A s \in slots :
                  /\ filled(s) <=> s <= ids[Len(ids)]
                  /\ valid_segment_mask(x, in_modulus)[s] <=> filled(s)
                  /\ _perform_multiplications(x, in_modulus)[s + 1]
                        = IF filled(s) THEN products(x, in_modulus)[s] ELSE 0

\* Two terms, the last one a negated residue that is not zero, and an empty
\* slot behind them.
TermIdsWitness ==
    /\ Evaluated
    /\ WellFormed(in_expression, in_modulus)
    /\ Len(in_expression) = 5
    /\ term_ids(Eliminated, in_modulus) = <<0, 0, 1>>
    /\ Eliminated[5] < 0
    /\ _perform_multiplications(Eliminated, in_modulus)[2] = Eliminated[5]
    /\ _perform_multiplications(Eliminated, in_modulus)[3] = 0

====
